---- MODULE Spec2Model ----
(***************************************************************************)
(* CampoMinado (src/src/App.tsx): the board generator generateBoard and    *)
(* the game state held by the App component (board, gameOver, gameWon,     *)
(* flags) with its three callbacks revealCell, toggleFlag and resetGame.   *)
(*                                                                         *)
(* Two specifications share the module:                                    *)
(*   GenSpec  generateBoard(size, mines) run step by step, one iteration   *)
(*            of the placement loop per step, for every size in            *)
(*            1..MaxSize and every mines in 0..size*size+1;                *)
(*   Spec     the game: every sequence of revealCell / toggleFlag /        *)
(*            resetGame calls, each handler followed by the re-render      *)
(*            that applies its state updates, on a BOARD_SIZE x BOARD_SIZE *)
(*            board with TOTAL_MINES mines, for each configuration of      *)
(*            Configs.                                                     *)
(***************************************************************************)
EXTENDS Integers, Sequences, FiniteSets

VARIABLES
    BOARD_SIZE,   \* line 10: the side of the board, fixed for a run
    TOTAL_MINES,  \* line 11: the number of mines, fixed for a run
    board,        \* useState board: board[row][col] is a Cell (cells are mutated in place)
    gameOver,     \* useState gameOver
    gameWon,      \* useState gameWon
    flags,        \* useState flags
    resetFrom,    \* history: when the last call was resetGame, the state it was made in
    pending,      \* the state updates queued since the last render, not yet applied
    size,         \* generateBoard: parameter size
    mines,        \* generateBoard: parameter mines
    genBoard,     \* generateBoard: local board
    placedMines,  \* generateBoard: local placedMines
    pc            \* generateBoard: position ("idle", "place", "done")

gameVars == <<BOARD_SIZE, TOTAL_MINES, board, gameOver, gameWon, flags, resetFrom, pending>>
genVars == <<size, mines, genBoard, placedMines, pc>>
vars == <<BOARD_SIZE, TOTAL_MINES, board, gameOver, gameWon, flags, resetFrom, pending, size, mines, genBoard, placedMines, pc>>

(***************************************************************************)
(* The program runs with BOARD_SIZE = 10 and TOTAL_MINES = 15 (lines       *)
(* 10-11).  The game is checked for each of these smaller configurations   *)
(* <<BOARD_SIZE, TOTAL_MINES>>, all with TOTAL_MINES < BOARD_SIZE^2 as     *)
(* the program's is: no mine, one mine, several mines, a single free cell, *)
(* and a 3 x 3 board.                                                      *)
(***************************************************************************)
Configs == { <<2, 0>>, <<2, 1>>, <<2, 2>>, <<2, 3>>, <<3, 1>> }

\* the largest size generateBoard is run with in GenSpec
MaxSize == 3

Index(sz) == 0 .. (sz - 1)

(***************************************************************************)
(* generateBoard, lines 13-61                                              *)
(***************************************************************************)
\* lines 14-21: the freshly allocated grid
EmptyBoard(sz) ==
    [row \in Index(sz) |-> [col \in Index(sz) |->
        [revealed |-> FALSE, mine |-> FALSE, adjacentMines |-> 0, flagged |-> FALSE]]]

\* line 29: board[row][col].mine = true
SetMine(b, row, col) == [b EXCEPT ![row][col].mine = TRUE]

\* mutant of adjacentCells: the four diagonal offsets are forgotten
adjacentCellsOrthogonal ==
    << <<-1, 0>>, <<0, -1>>, <<0, 1>>, <<1, 0>> >>

\* lines 39-43: the eight offsets, in the order of the source
adjacentCells ==
    << <<-1, -1>>, <<-1, 0>>, <<-1, 1>>,
       <<0, -1>>,             <<0, 1>>,
       <<1, -1>>,  <<1, 0>>,  <<1, 1>> >>

\* mutant of InBounds: the upper bounds are off by one
InBoundsOffByOne(sz, newRow, newCol) ==
    newRow >= 0 /\ newRow < sz - 1 /\ newCol >= 0 /\ newCol < sz - 1

\* line 49: the bounds check of a neighbour
InBounds(sz, newRow, newCol) ==
    newRow >= 0 /\ newRow < sz /\ newCol >= 0 /\ newCol < sz

\* lines 45-54: adjacentCells.forEach from offset i on, counting the mines
RECURSIVE AdjacentMinesCount(_, _, _, _, _)
AdjacentMinesCount(b, sz, row, col, i) ==
    IF i > Len(adjacentCells) THEN 0
    ELSE LET newRow == row + adjacentCells[i][1]
             newCol == col + adjacentCells[i][2]
             hit == IF InBounds(sz, newRow, newCol)
                    THEN (IF b[newRow][newCol].mine THEN 1 ELSE 0)
                    ELSE 0
         IN  hit + AdjacentMinesCount(b, sz, row, col, i + 1)

\* lines 35-58: the adjacency pass; a mine cell is skipped (line 37)
CalculateAdjacent(b, sz) ==
    [row \in Index(sz) |-> [col \in Index(sz) |->
        IF b[row][col].mine
        THEN b[row][col]
        ELSE [b[row][col] EXCEPT !.adjacentMines = AdjacentMinesCount(b, sz, row, col, 1)]]]

\* lines 24-32: the boards the placement loop can hold after k successful placements
RECURSIVE PlacedBoards(_, _)
PlacedBoards(sz, k) ==
    IF k <= 0 THEN {EmptyBoard(sz)}
    ELSE UNION { { SetMine(b, row, col) :
                     <<row, col>> \in { rc \in Index(sz) \X Index(sz) : ~b[rc[1]][rc[2]].mine } }
                 : b \in PlacedBoards(sz, k - 1) }

\* lines 13-61: every board generateBoard(sz, m) can return (none when the loop cannot end)
generateBoard(sz, m) == { CalculateAdjacent(b, sz) : b \in PlacedBoards(sz, m) }

\* resetFrom when the last call was not resetGame (or nothing was called yet)
NoReset == [state |-> "none", flags |-> 0]

\* no update is queued: the hooks hold what the last render gave them
NoPending == [over |-> FALSE, won |-> FALSE, updaters |-> <<>>, calls |-> 0]

GenIdle ==
    /\ size = 0 /\ mines = 0 /\ genBoard = EmptyBoard(0) /\ placedMines = 0 /\ pc = "idle"

GameIdle ==
    /\ BOARD_SIZE = 0 /\ TOTAL_MINES = 0
    /\ board = EmptyBoard(0) /\ gameOver = FALSE /\ gameWon = FALSE /\ flags = 0
    /\ resetFrom = NoReset
    /\ pending = NoPending

\* lines 13-24: a call generateBoard(sz, m) up to the head of the while loop
GenCall(sz, m) ==
    /\ size' = sz
    /\ mines' = m
    /\ genBoard' = EmptyBoard(sz)
    /\ placedMines' = 0
    /\ pc' = "place"

GenInit ==
    /\ GameIdle
    /\ \E sz \in 1 .. MaxSize : \E m \in 0 .. (sz * sz + 1) :
          /\ size = sz /\ mines = m
          /\ genBoard = EmptyBoard(sz) /\ placedMines = 0 /\ pc = "place"

\* mutant of PlaceMine: a draw of an already-mined cell is counted too
PlaceMineCountsDuplicates(row, col) ==
    /\ pc = "place"
    /\ placedMines < mines
    /\ genBoard' = SetMine(genBoard, row, col)
    /\ placedMines' = placedMines + 1
    /\ UNCHANGED <<size, mines, pc>>

\* lines 25-32: one iteration of the placement loop, drawing (row, col)
PlaceMine(row, col) ==
    /\ pc = "place"
    /\ placedMines < mines
    /\ IF ~genBoard[row][col].mine
       THEN /\ genBoard' = SetMine(genBoard, row, col)
            /\ placedMines' = placedMines + 1
       ELSE UNCHANGED <<genBoard, placedMines>>
    /\ UNCHANGED <<size, mines, pc>>

\* line 25 (loop exit) and lines 34-60: the adjacency pass and the return
FinishBoard ==
    /\ pc = "place"
    /\ ~(placedMines < mines)
    /\ genBoard' = CalculateAdjacent(genBoard, size)
    /\ pc' = "done"
    /\ UNCHANGED <<size, mines, placedMines>>

\* the next call of generateBoard (App.tsx calls it on every render and on reset)
GenAgain ==
    /\ pc = "done"
    /\ \E sz \in 1 .. MaxSize : \E m \in 0 .. (sz * sz + 1) : GenCall(sz, m)

GenNext ==
    \/ \E row \in Index(size) : \E col \in Index(size) :
          PlaceMine(row, col) /\ UNCHANGED gameVars
    \/ FinishBoard /\ UNCHANGED gameVars
    \/ GenAgain /\ UNCHANGED gameVars

GenSpec == GenInit /\ [][GenNext]_vars

\* lines 26-27: Math.random draws every cell with positive probability, so while
\* the loop runs and a free cell is left, a free cell is eventually drawn; and
\* the code after the loop runs once the loop has ended
PlaceStep ==
    \E row \in Index(size) : \E col \in Index(size) :
        PlaceMine(row, col) /\ UNCHANGED gameVars

GenFairSpec ==
    /\ GenInit
    /\ [][GenNext]_vars
    /\ WF_vars(PlaceStep)
    /\ WF_vars(FinishBoard /\ UNCHANGED gameVars)

\* the most callbacks invoked from one render snapshot
MaxBatch == 2

(***************************************************************************)
(* App, lines 63-103.  A callback runs to completion and React re-renders  *)
(* before the next event is dispatched, so a handler always reads the      *)
(* state its predecessor left: each action below is a whole handler        *)
(* together with the state updates it queued.                              *)
(***************************************************************************)
Rows == Index(BOARD_SIZE)
Cols == Index(BOARD_SIZE)

\* mutant of Terminal: the guard tests gameWon only
TerminalOnlyWon(over, won) == won

\* mutant of Terminal: the guard tests gameOver only
TerminalOnlyOver(over, won) == over

\* lines 70 and 89: if (gameOver || gameWon) return
Terminal(over, won) == over \/ won

\* mutant of RevealRejected: the guard forgets the flagged bit
RevealRejectedOnlyRevealed(b, row, col) == b[row][col].revealed

\* line 71: if (board[row][col].revealed || board[row][col].flagged) return
RevealRejected(b, row, col) == b[row][col].revealed \/ b[row][col].flagged

\* mutant of Reveal: the cell is replaced by a new revealed cell, its other fields lost
RevealResetsCell(b, row, col) ==
    [b EXCEPT ![row][col] =
        [revealed |-> TRUE, mine |-> FALSE, adjacentMines |-> 0, flagged |-> FALSE]]

\* mutant of Reveal: the reveal cascades to the eight neighbours
RevealCascade(b, row, col) ==
    [r \in DOMAIN b |-> [c \in DOMAIN b[r] |->
        IF r - row \in -1 .. 1 /\ c - col \in -1 .. 1
        THEN [b[r][c] EXCEPT !.revealed = TRUE]
        ELSE b[r][c]]]

\* lines 73-74: newBoard[row][col].revealed = true
Reveal(b, row, col) == [b EXCEPT ![row][col].revealed = TRUE]

\* mutant of AllRevealedOrMine: "some" in place of the outer "every"
SomeRowRevealedOrMine(b) ==
    \E row \in DOMAIN b : \A col \in DOMAIN b[row] :
        b[row][col].revealed \/ b[row][col].mine

\* mutant of AllRevealedOrMine: the win test forgets "|| cell.mine"
AllRevealed(b) ==
    \A row \in DOMAIN b : \A col \in DOMAIN b[row] : b[row][col].revealed

\* line 82: newBoard.every(row => row.every(cell => cell.revealed || cell.mine))
AllRevealedOrMine(b) ==
    \A row \in DOMAIN b : \A col \in DOMAIN b[row] :
        b[row][col].revealed \/ b[row][col].mine

\* mutant of FlagRejected: a revealed cell can be flagged
FlagRejectedNever(b, row, col) == FALSE

\* line 90: if (board[row][col].revealed) return
FlagRejected(b, row, col) == b[row][col].revealed

\* mutant of FlipFlag: the flag is set, never cleared
FlipFlagSetsOnly(b, row, col) == [b EXCEPT ![row][col].flagged = TRUE]

\* lines 92-93: newBoard[row][col].flagged = !newBoard[row][col].flagged
FlipFlag(b, row, col) == [b EXCEPT ![row][col].flagged = ~b[row][col].flagged]

\* mutant of FlagsUpdater: the counter is clamped at 0
FlagsUpdaterClamped(newBoard, row, col, prevFlags) ==
    IF newBoard[row][col].flagged
    THEN (IF prevFlags > 0 THEN prevFlags - 1 ELSE 0)
    ELSE prevFlags + 1

\* mutant of FlagsUpdater: every toggle decrements
FlagsUpdaterAlwaysDecrement(newBoard, row, col, prevFlags) == prevFlags - 1

\* line 95: prevFlags => newBoard[row][col].flagged ? prevFlags - 1 : prevFlags + 1
FlagsUpdater(newBoard, row, col, prevFlags) ==
    IF newBoard[row][col].flagged THEN prevFlags - 1 ELSE prevFlags + 1

\* lines 64 and 99: generateBoard(BOARD_SIZE, TOTAL_MINES), for each configuration
GeneratedBoards == [cfg \in Configs |-> generateBoard(cfg[1], cfg[2])]
FreshBoards == GeneratedBoards[<<BOARD_SIZE, TOTAL_MINES>>]

\* the state of section 4.2's machine that the hooks' values stand for
StateName(over, won) == IF over THEN "Lost" ELSE IF won THEN "Won" ELSE "Playing"

\* lines 64-67: the values of the four state hooks
State == [board |-> board, gameOver |-> gameOver, gameWon |-> gameWon, flags |-> flags]

\* lines 64-67: the initial state of the component
Init ==
    /\ GenIdle
    /\ \E cfg \in Configs : BOARD_SIZE = cfg[1] /\ TOTAL_MINES = cfg[2]
    /\ board \in FreshBoards
    /\ gameOver = FALSE
    /\ gameWon = FALSE
    /\ flags = TOTAL_MINES
    /\ resetFrom = NoReset
    /\ pending = NoPending

\* lines 69-86: the state revealCell(row, col) leaves when called in state st
revealCell(st, row, col) ==
    IF Terminal(st.gameOver, st.gameWon) THEN st
    ELSE IF RevealRejected(st.board, row, col) THEN st
    ELSE LET newBoard == Reveal(st.board, row, col) IN
         IF newBoard[row][col].mine
         THEN [st EXCEPT !.board = newBoard, !.gameOver = TRUE]
         ELSE IF AllRevealedOrMine(newBoard)
         THEN [st EXCEPT !.board = newBoard, !.gameWon = TRUE]
         ELSE [st EXCEPT !.board = newBoard]

\* lines 88-96: the state toggleFlag(row, col) leaves when called in state st
toggleFlag(st, row, col) ==
    IF Terminal(st.gameOver, st.gameWon) THEN st
    ELSE IF FlagRejected(st.board, row, col) THEN st
    ELSE LET newBoard == FlipFlag(st.board, row, col) IN
         [st EXCEPT !.board = newBoard,
                    !.flags = FlagsUpdater(newBoard, row, col, st.flags)]

\* mutant of resetGame: setFlags(TOTAL_MINES) is forgotten
resetGameKeepsFlags(st, fresh) ==
    [board |-> fresh, gameOver |-> FALSE, gameWon |-> FALSE, flags |-> st.flags]

\* lines 98-103: the state resetGame leaves, fresh being the board generateBoard returned
resetGame(st, fresh) ==
    [board |-> fresh, gameOver |-> FALSE, gameWon |-> FALSE, flags |-> TOTAL_MINES]

\* the re-render that follows a handler: the hooks take the values it set
Render(st) ==
    /\ board' = st.board
    /\ gameOver' = st.gameOver
    /\ gameWon' = st.gameWon
    /\ flags' = st.flags
    /\ UNCHANGED <<BOARD_SIZE, TOTAL_MINES, pending>>

\* lines 126 and 133: onClick / Enter / Space on the cell (row, col)
RevealCell(row, col) ==
    /\ Render(revealCell(State, row, col))
    /\ resetFrom' = NoReset

\* lines 127 and 135: onContextMenu / F on the cell (row, col)
ToggleFlag(row, col) ==
    /\ Render(toggleFlag(State, row, col))
    /\ resetFrom' = NoReset

\* line 164: onClick of the New Game button
ResetGame ==
    /\ \E fresh \in FreshBoards : Render(resetGame(State, fresh))
    /\ resetFrom' = [state |-> StateName(gameOver, gameWon), flags |-> flags]

Next ==
    \/ \E row \in Rows : \E col \in Cols : RevealCell(row, col) /\ UNCHANGED genVars
    \/ \E row \in Rows : \E col \in Cols : ToggleFlag(row, col) /\ UNCHANGED genVars
    \/ ResetGame /\ UNCHANGED genVars

\* The same component when several callbacks are invoked from one render
\* snapshot, before the re-render that applies the queued updates.  The closures
\* of lines 69-96 hold the gameOver, gameWon and board of the last render; the
\* cells are mutated in place (lines 73-74, 92-93), so a stale closure reads the
\* cells as they are now.  gameOver, gameWon and flags are the rendered values;
\* pending holds what setGameOver, setGameWon and setFlags have queued.
StaleInit ==
    /\ Init
    /\ BOARD_SIZE = 2

\* flags drifts when one snapshot toggles a cell twice; a call is taken only
\* while flags is within MaxBatch of the values an atomic game gives it
FlagsWindow ==
    (TOTAL_MINES - BOARD_SIZE * BOARD_SIZE - MaxBatch) .. (TOTAL_MINES + MaxBatch)

\* lines 69-86 called from the snapshot <<gameOver, gameWon>> on the cells as they are
StaleRevealCell(row, col) ==
    /\ pending.calls < MaxBatch
    /\ flags \in FlagsWindow
    /\ LET st == revealCell(State, row, col) IN
          /\ board' = st.board
          /\ pending' = [pending EXCEPT !.over = @ \/ (st.gameOver /\ ~gameOver),
                                        !.won = @ \/ (st.gameWon /\ ~gameWon),
                                        !.calls = @ + 1]
    /\ resetFrom' = NoReset
    /\ UNCHANGED <<BOARD_SIZE, TOTAL_MINES, gameOver, gameWon, flags>>

\* lines 88-96 called from the snapshot <<gameOver, gameWon>> on the cells as they
\* are; the updater of line 95 is queued, not run: setBoard (line 94) has already
\* queued an update, so it waits for the render
StaleToggleFlag(row, col) ==
    /\ pending.calls < MaxBatch
    /\ flags \in FlagsWindow
    /\ LET st == toggleFlag(State, row, col) IN
          /\ board' = st.board
          /\ pending' = [pending EXCEPT
                            !.updaters = IF st.board # board
                                         THEN Append(@, <<row, col>>) ELSE @,
                            !.calls = @ + 1]
    /\ resetFrom' = NoReset
    /\ UNCHANGED <<BOARD_SIZE, TOTAL_MINES, gameOver, gameWon, flags>>

\* line 95: the queued updaters run in order at the render, each reading its
\* cell's flagged as it is then
RECURSIVE ApplyUpdaters(_, _, _)
ApplyUpdaters(b, updaters, prevFlags) ==
    IF updaters = <<>> THEN prevFlags
    ELSE ApplyUpdaters(b, Tail(updaters),
                       FlagsUpdater(b, Head(updaters)[1], Head(updaters)[2], prevFlags))

\* the re-render: the hooks take the queued values, new closures are created
StaleRender ==
    /\ pending.calls > 0
    /\ gameOver' = (gameOver \/ pending.over)
    /\ gameWon' = (gameWon \/ pending.won)
    /\ flags' = ApplyUpdaters(board, pending.updaters, flags)
    /\ pending' = NoPending
    /\ UNCHANGED <<BOARD_SIZE, TOTAL_MINES, board, resetFrom>>

\* line 164: New Game pressed when nothing is queued, with its re-render
StaleReset ==
    /\ pending = NoPending
    /\ flags \in FlagsWindow
    /\ ResetGame

StaleNext ==
    \/ \E row \in Rows : \E col \in Cols : StaleRevealCell(row, col) /\ UNCHANGED genVars
    \/ \E row \in Rows : \E col \in Cols : StaleToggleFlag(row, col) /\ UNCHANGED genVars
    \/ StaleRender /\ UNCHANGED genVars
    \/ StaleReset /\ UNCHANGED genVars

StaleSpec == StaleInit /\ [][StaleNext]_vars

Spec == Init /\ [][Next]_vars

(***************************************************************************)
(* Properties                                                              *)
(***************************************************************************)
GridCells(sz) == Index(sz) \X Index(sz)
MineCells(b, sz) == { rc \in GridCells(sz) : b[rc[1]][rc[2]].mine }
FlaggedCells(b, sz) == { rc \in GridCells(sz) : b[rc[1]][rc[2]].flagged }
RevealedCells(b, sz) == { rc \in GridCells(sz) : b[rc[1]][rc[2]].revealed }
\* the in-bounds Moore neighbours of (row, col)
Neighbours(sz, row, col) ==
    { rc \in GridCells(sz) :
        /\ rc # <<row, col>>
        /\ rc[1] - row \in -1 .. 1
        /\ rc[2] - col \in -1 .. 1 }
Playing == ~gameOver /\ ~gameWon
Untouched(b, sz) == RevealedCells(b, sz) = {} /\ FlaggedCells(b, sz) = {}

\* C1: a board returned by generateBoard(size, mines) with 0 <= mines < size*size
\* holds exactly `mines` mines, every non-mine cell's adjacentMines is the number
\* of its in-bounds Moore neighbours that are mines (at most 8), and no cell is
\* revealed or flagged.
C1_GeneratedBoard ==
    (pc = "done" /\ 0 <= mines /\ mines < size * size) =>
        /\ Cardinality(MineCells(genBoard, size)) = mines
        /\ \A rc \in GridCells(size) :
              ~genBoard[rc[1]][rc[2]].mine =>
                 /\ genBoard[rc[1]][rc[2]].adjacentMines =
                       Cardinality(Neighbours(size, rc[1], rc[2]) \cap MineCells(genBoard, size))
                 /\ genBoard[rc[1]][rc[2]].adjacentMines <= 8
        /\ Untouched(genBoard, size)

\* a returned 3x3 board whose free centre counts four mines, one of them diagonal
C1_Witness ==
    /\ pc = "done" /\ size = 3 /\ mines = 4
    /\ ~genBoard[1][1].mine /\ genBoard[1][1].adjacentMines = 4
    /\ genBoard[0][0].mine
    /\ ~genBoard[2][2].mine /\ genBoard[2][2].adjacentMines = 1

\* C2: gameOver and gameWon are never both true.
C2_NeverOverAndWon == ~(gameOver /\ gameWon)

\* a won game and a lost game are both reachable; here the won one, with a flag placed
C2_Witness ==
    /\ gameWon /\ ~gameOver
    /\ FlaggedCells(board, BOARD_SIZE) # {}

\* C3: in a terminal state every revealCell(row, col) and toggleFlag(row, col)
\* call leaves the whole state (every cell, flags, gameOver, gameWon) as it is;
\* resetGame is the only other call.
C3_TerminalFrozen ==
    (gameOver \/ gameWon) =>
        \A row \in Rows : \A col \in Cols :
            /\ revealCell(State, row, col) = State
            /\ toggleFlag(State, row, col) = State

\* a lost game in which a reveal and a toggle would have something to change: a
\* hidden unflagged cell and a flagged cell
C3_Witness ==
    /\ gameOver
    /\ \E rc \in GridCells(BOARD_SIZE) :
          ~board[rc[1]][rc[2]].revealed /\ ~board[rc[1]][rc[2]].flagged
    /\ FlaggedCells(board, BOARD_SIZE) # {}

\* C4: while no cell is flagged and no mine is revealed, gameWon holds exactly
\* when every non-mine cell is revealed: it stays false after a reveal that leaves
\* a non-mine cell hidden and is true from the reveal of the last one.
C4_WonAtLastReveal ==
    (FlaggedCells(board, BOARD_SIZE) = {}
        /\ RevealedCells(board, BOARD_SIZE) \cap MineCells(board, BOARD_SIZE) = {}) =>
        (gameWon <=>
            RevealedCells(board, BOARD_SIZE) =
                GridCells(BOARD_SIZE) \ MineCells(board, BOARD_SIZE))

\* the game won with no flag placed: every non-mine cell revealed, the mines hidden
C4_Witness ==
    /\ gameWon
    /\ FlaggedCells(board, BOARD_SIZE) = {}
    /\ RevealedCells(board, BOARD_SIZE) =
          GridCells(BOARD_SIZE) \ MineCells(board, BOARD_SIZE)
    /\ RevealedCells(board, BOARD_SIZE) # {}

\* C5: in Playing, revealCell on a hidden unflagged mine sets gameOver, reveals
\* that cell, leaves every other cell's revealed bit as it was and does not set
\* gameWon.
C5_MineRevealLoses ==
    \A row \in Rows : \A col \in Cols :
        ( /\ Playing
          /\ board[row][col].mine
          /\ ~board[row][col].revealed
          /\ ~board[row][col].flagged ) =>
            LET after == revealCell(State, row, col) IN
            /\ after.gameOver
            /\ ~after.gameWon
            /\ after.board[row][col].revealed
            /\ \A rc \in GridCells(BOARD_SIZE) :
                  rc # <<row, col>> =>
                      after.board[rc[1]][rc[2]].revealed = board[rc[1]][rc[2]].revealed

\* a lost game on a board with two mines: one mine revealed, the other hidden, a
\* non-mine cell revealed earlier, another still hidden
C5_Witness ==
    /\ gameOver /\ ~gameWon
    /\ TOTAL_MINES = 2
    /\ Cardinality(RevealedCells(board, BOARD_SIZE) \cap MineCells(board, BOARD_SIZE)) = 1
    /\ RevealedCells(board, BOARD_SIZE) \ MineCells(board, BOARD_SIZE) # {}
    /\ (GridCells(BOARD_SIZE) \ MineCells(board, BOARD_SIZE))
          \ RevealedCells(board, BOARD_SIZE) # {}

\* C6: the flags counter is TOTAL_MINES minus the number of flagged cells.
C6_FlagsCounter == flags = TOTAL_MINES - Cardinality(FlaggedCells(board, BOARD_SIZE))

\* more flags placed than there are mines: the counter is negative
C6_Witness ==
    /\ Cardinality(FlaggedCells(board, BOARD_SIZE)) > TOTAL_MINES
    /\ flags < 0

\* C7: in Playing, revealCell on a revealed or flagged cell changes nothing (no
\* cell, not flags, gameOver or gameWon): a second reveal of a cell leaves what
\* the first left, and a flagged mine is not detonated.
C7_RevealRejectedNoOp ==
    \A row \in Rows : \A col \in Cols :
        (Playing /\ (board[row][col].revealed \/ board[row][col].flagged)) =>
            revealCell(State, row, col) = State

\* a game in play with a revealed non-mine cell and a flagged mine
C7_Witness ==
    /\ Playing
    /\ RevealedCells(board, BOARD_SIZE) # {}
    /\ FlaggedCells(board, BOARD_SIZE) \cap MineCells(board, BOARD_SIZE) # {}

\* C8: in Playing, toggleFlag on a revealed cell leaves that cell's flagged bit,
\* every other cell and the flags counter unchanged.
C8_FlagRevealedNoOp ==
    \A row \in Rows : \A col \in Cols :
        (Playing /\ board[row][col].revealed) =>
            LET after == toggleFlag(State, row, col) IN
            /\ after.board = board
            /\ after.flags = flags

\* a game in play with a revealed cell, and a flag placed on another cell
C8_Witness ==
    /\ Playing
    /\ RevealedCells(board, BOARD_SIZE) # {}
    /\ flags = TOTAL_MINES - 1

\* C9: the state right after a resetGame call, whatever state it was made in, has
\* gameOver = gameWon = false, flags = TOTAL_MINES and a board with exactly
\* TOTAL_MINES mines and no cell revealed or flagged, and in it every reveal and
\* every toggle is accepted (it changes the state).
C9_ResetFresh ==
    resetFrom.state # "none" =>
        /\ ~gameOver /\ ~gameWon
        /\ flags = TOTAL_MINES
        /\ Cardinality(MineCells(board, BOARD_SIZE)) = TOTAL_MINES
        /\ Untouched(board, BOARD_SIZE)
        /\ \A row \in Rows : \A col \in Cols :
              /\ revealCell(State, row, col).board[row][col].revealed
              /\ toggleFlag(State, row, col).board[row][col].flagged
              /\ toggleFlag(State, row, col).flags = TOTAL_MINES - 1

\* the state right after a reset of a lost game in which more flags than mines stood
C9_Witness ==
    /\ resetFrom.state = "Lost" /\ resetFrom.flags < 0
    /\ Playing /\ flags = TOTAL_MINES
    /\ Untouched(board, BOARD_SIZE)

\* C10: with mines >= size*size generateBoard neither returns a board nor sits in
\* the placement loop with every cell mined (it fails before the loop).
C10_InvalidConfigurationRejected ==
    (pc # "idle" /\ mines >= size * size) =>
        /\ pc # "done"
        /\ ~(pc = "place" /\ placedMines < mines
                /\ MineCells(genBoard, size) = GridCells(size))

\* C11: a revealCell call changes the revealed bit of at most one cell, the
\* targeted one, also when that cell has adjacentMines = 0 (no cascade), and
\* changes no cell's flagged, mine or adjacentMines value and not the flags counter.
C11_RevealSingleCell ==
    \A row \in Rows : \A col \in Cols :
        LET after == revealCell(State, row, col) IN
        /\ after.flags = flags
        /\ \A rc \in GridCells(BOARD_SIZE) :
              /\ after.board[rc[1]][rc[2]].flagged = board[rc[1]][rc[2]].flagged
              /\ after.board[rc[1]][rc[2]].mine = board[rc[1]][rc[2]].mine
              /\ after.board[rc[1]][rc[2]].adjacentMines = board[rc[1]][rc[2]].adjacentMines
              /\ rc # <<row, col>> =>
                    after.board[rc[1]][rc[2]].revealed = board[rc[1]][rc[2]].revealed

\* a game in play on the 3 x 3 board where a cell with adjacentMines = 0 is the
\* only revealed cell: none of its neighbours was revealed with it
C11_Witness ==
    /\ Playing
    /\ BOARD_SIZE = 3
    /\ \E rc \in GridCells(BOARD_SIZE) :
          /\ RevealedCells(board, BOARD_SIZE) = {rc}
          /\ ~board[rc[1]][rc[2]].mine
          /\ board[rc[1]][rc[2]].adjacentMines = 0

\* C12: in Playing, toggleFlag on a hidden unflagged cell flips exactly that
\* cell's flagged bit and decrements flags by 1, and a second toggleFlag on the
\* same cell restores the whole prior state; revealed, gameOver and gameWon are
\* never changed.
C12_ToggleRoundTrip ==
    \A row \in Rows : \A col \in Cols :
        (Playing /\ ~board[row][col].revealed /\ ~board[row][col].flagged) =>
            LET once == toggleFlag(State, row, col)
                twice == toggleFlag(once, row, col)
            IN  /\ once.board = [board EXCEPT ![row][col].flagged = TRUE]
                /\ once.flags = flags - 1
                /\ once.gameOver = gameOver /\ once.gameWon = gameWon
                /\ twice = State

\* a game in play with the counter at 0, a revealed cell and a hidden unflagged
\* cell left to flag: the next flag takes the counter below 0
C12_Witness ==
    /\ Playing
    /\ flags = 0 /\ TOTAL_MINES > 0
    /\ RevealedCells(board, BOARD_SIZE) # {}
    /\ \E rc \in GridCells(BOARD_SIZE) :
          ~board[rc[1]][rc[2]].revealed /\ ~board[rc[1]][rc[2]].flagged

\* C13 as stated: once every cell is flagged, toggleFlag on a flagged cell is a
\* no-op (no flagged bit and not the counter changes).
C13_FlagAgainIsNoOp ==
    (Playing /\ FlaggedCells(board, BOARD_SIZE) = GridCells(BOARD_SIZE)) =>
        \A row \in Rows : \A col \in Cols :
            toggleFlag(State, row, col) = State

\* C13 as amended: once every cell is flagged, toggleFlag on a flagged cell
\* clears that cell's flag, leaves every other cell as it is and raises the
\* counter by 1; it does not decrement the counter further.
C13_FlagAgainUnflags ==
    (Playing /\ FlaggedCells(board, BOARD_SIZE) = GridCells(BOARD_SIZE)) =>
        \A row \in Rows : \A col \in Cols :
            LET after == toggleFlag(State, row, col) IN
            /\ after.board = [board EXCEPT ![row][col].flagged = FALSE]
            /\ after.flags = flags + 1
            /\ ~(after.flags < flags)
            /\ after.gameOver = gameOver /\ after.gameWon = gameWon

\* every cell of the board flagged, the counter at TOTAL_MINES minus the number of cells
C13_Witness ==
    /\ Playing
    /\ FlaggedCells(board, BOARD_SIZE) = GridCells(BOARD_SIZE)
    /\ flags = TOTAL_MINES - BOARD_SIZE * BOARD_SIZE

\* C16: no revealCell and no toggleFlag call changes a cell's mine or
\* adjacentMines value; in every reachable state the board holds exactly
\* TOTAL_MINES mines and every non-mine cell's adjacentMines is the number of its
\* neighbours that are mines.
C16_MinesFixed ==
    /\ Cardinality(MineCells(board, BOARD_SIZE)) = TOTAL_MINES
    /\ \A rc \in GridCells(BOARD_SIZE) :
          ~board[rc[1]][rc[2]].mine =>
              board[rc[1]][rc[2]].adjacentMines =
                  Cardinality(Neighbours(BOARD_SIZE, rc[1], rc[2])
                                 \cap MineCells(board, BOARD_SIZE))
    /\ \A row \in Rows : \A col \in Cols :
          LET revealedIt == revealCell(State, row, col).board
              toggledIt == toggleFlag(State, row, col).board
          IN  \A rc \in GridCells(BOARD_SIZE) :
                 /\ revealedIt[rc[1]][rc[2]].mine = board[rc[1]][rc[2]].mine
                 /\ revealedIt[rc[1]][rc[2]].adjacentMines = board[rc[1]][rc[2]].adjacentMines
                 /\ toggledIt[rc[1]][rc[2]].mine = board[rc[1]][rc[2]].mine
                 /\ toggledIt[rc[1]][rc[2]].adjacentMines = board[rc[1]][rc[2]].adjacentMines

\* a lost game with two mines, after reveals and a flag: a mine revealed, a non-mine
\* cell with a positive count revealed, a cell flagged
C16_Witness ==
    /\ gameOver
    /\ TOTAL_MINES = 2
    /\ FlaggedCells(board, BOARD_SIZE) # {}
    /\ \E rc \in RevealedCells(board, BOARD_SIZE) :
          ~board[rc[1]][rc[2]].mine /\ board[rc[1]][rc[2]].adjacentMines = 2

\* C17: no cell is both revealed and flagged.
C17_NotRevealedAndFlagged ==
    RevealedCells(board, BOARD_SIZE) \cap FlaggedCells(board, BOARD_SIZE) = {}

\* a game in play with a revealed cell and, next to it, a flagged cell
C17_Witness ==
    /\ Playing
    /\ board[0][0].revealed /\ ~board[0][0].flagged
    /\ board[0][1].flagged /\ ~board[0][1].revealed

\* C18: gameOver holds exactly when some mine is revealed, and at most one mine
\* is revealed.
C18_OverIffMineRevealed ==
    /\ gameOver <=> (RevealedCells(board, BOARD_SIZE) \cap MineCells(board, BOARD_SIZE) # {})
    /\ Cardinality(RevealedCells(board, BOARD_SIZE) \cap MineCells(board, BOARD_SIZE)) <= 1

\* a lost game on a board with three mines: one revealed, two still hidden
C18_Witness ==
    /\ gameOver
    /\ TOTAL_MINES = 3
    /\ Cardinality(MineCells(board, BOARD_SIZE) \ RevealedCells(board, BOARD_SIZE)) = 2

\* C19: gameWon holds exactly when every non-mine cell is revealed; so in Playing
\* a non-mine cell is hidden, and in Won no mine is revealed and no non-mine cell
\* is flagged.
C19_WonIffAllRevealed ==
    /\ gameWon <=>
          (GridCells(BOARD_SIZE) \ MineCells(board, BOARD_SIZE)
              \subseteq RevealedCells(board, BOARD_SIZE))
    /\ Playing =>
          (GridCells(BOARD_SIZE) \ MineCells(board, BOARD_SIZE))
              \ RevealedCells(board, BOARD_SIZE) # {}
    /\ gameWon =>
          /\ RevealedCells(board, BOARD_SIZE) \cap MineCells(board, BOARD_SIZE) = {}
          /\ FlaggedCells(board, BOARD_SIZE) \subseteq MineCells(board, BOARD_SIZE)

\* a won game on the 3 x 3 board, its mine flagged
C19_Witness ==
    /\ gameWon
    /\ BOARD_SIZE = 3
    /\ FlaggedCells(board, BOARD_SIZE) = MineCells(board, BOARD_SIZE)

\* C14: placedMines never exceeds mines and always equals the number of mined
\* cells (a draw of a mined cell places nothing), and for 0 <= mines < size*size
\* the placement loop ends, provided a free cell is eventually drawn.
C14_PlacementTerminates ==
    /\ [](/\ placedMines <= mines
          /\ placedMines = Cardinality(MineCells(genBoard, size)))
    /\ (pc = "place" /\ 0 <= mines /\ mines < size * size) ~> (pc = "done")

\* the loop under way on the 3 x 3 board: some mines placed, more to place, so the
\* next draw may hit a mined cell
C14_Witness ==
    /\ pc = "place" /\ size = 3
    /\ 0 < placedMines /\ placedMines < mines /\ mines < size * size

\* the corner cells of a board with at least two rows
CornerCells(sz) == { rc \in GridCells(sz) : rc[1] \in {0, sz - 1} /\ rc[2] \in {0, sz - 1} }

\* the cells of a board that touch no border
InteriorCells(sz) ==
    { rc \in GridCells(sz) : rc[1] \notin {0, sz - 1} /\ rc[2] \notin {0, sz - 1} }

\* C15 as stated: generateBoard with mines = size*size - 1 returns, and leaves
\* exactly one non-mine cell whose adjacentMines is the number of its in-bounds
\* neighbours, which is 4 when that cell is a corner.
C15_CornerHasFour ==
    /\ (pc = "place" /\ mines = size * size - 1) ~> (pc = "done")
    /\ []((pc = "done" /\ mines = size * size - 1) =>
            /\ Cardinality(GridCells(size) \ MineCells(genBoard, size)) = 1
            /\ \A rc \in GridCells(size) \ MineCells(genBoard, size) :
                  /\ genBoard[rc[1]][rc[2]].adjacentMines =
                        Cardinality(Neighbours(size, rc[1], rc[2]))
                  /\ (size >= 2 /\ rc \in CornerCells(size)) =>
                        genBoard[rc[1]][rc[2]].adjacentMines = 4)

\* C15, amended: generateBoard with mines = size*size - 1 returns, and leaves
\* exactly one non-mine cell whose adjacentMines is the number of its in-bounds
\* neighbours: 3 for a corner of a board with at least two rows, 8 for an
\* interior cell, never more than 8.
C15_FreeCellCountsNeighbours ==
    /\ (pc = "place" /\ mines = size * size - 1) ~> (pc = "done")
    /\ []((pc = "done" /\ mines = size * size - 1) =>
            /\ Cardinality(GridCells(size) \ MineCells(genBoard, size)) = 1
            /\ \A rc \in GridCells(size) \ MineCells(genBoard, size) :
                  /\ genBoard[rc[1]][rc[2]].adjacentMines =
                        Cardinality(Neighbours(size, rc[1], rc[2]))
                  /\ genBoard[rc[1]][rc[2]].adjacentMines <= 8
                  /\ (size >= 2 /\ rc \in CornerCells(size)) =>
                        genBoard[rc[1]][rc[2]].adjacentMines = 3
                  /\ rc \in InteriorCells(size) =>
                        genBoard[rc[1]][rc[2]].adjacentMines = 8)

\* the 3 x 3 board returned with 8 mines, the free cell being the corner (0, 0)
C15_Witness ==
    /\ pc = "done" /\ size = 3 /\ mines = 8
    /\ GridCells(size) \ MineCells(genBoard, size) = { <<0, 0>> }
    /\ genBoard[0][0].adjacentMines = 3

\* C20: a revealCell or toggleFlag invoked from the render snapshot in which an
\* earlier revealCell ended the game changes no cell and queues no update, and
\* gameOver and gameWon are never both true.
C20_StaleGuardHolds ==
    /\ ~(gameOver /\ gameWon)
    /\ ~(pending.over /\ pending.won)
    /\ (pending.over \/ pending.won) =>
          \A row \in Rows : \A col \in Cols :
              /\ revealCell(State, row, col) = State
              /\ toggleFlag(State, row, col) = State

====
